---------------------------- MODULE Spec2Model ----------------------------
(***************************************************************************)
(* Fantasy-points-against dashboard (src/main.py).                         *)
(*                                                                         *)
(* A pandas DataFrame is modelled up to row order.  A frame whose rows may *)
(* repeat (the result of a concat or a merge) is a bag of rows: a function *)
(* from row records to positive counts.  A frame produced by               *)
(* groupby(...).reset_index() has one row per key and is a set of rows     *)
(* (pandas sorts it by key, so the set determines the frame).  Input       *)
(* frames are sequences of rows, in file order.                            *)
(*                                                                         *)
(* Fantasy points are integers (one unit stands for one point); pandas'    *)
(* missing value is NULL in string columns and NaN in numeric columns.     *)
(***************************************************************************)
EXTENDS Integers, Sequences, FiniteSets, Bags, TLC

VARIABLES
    pbp,              \* season -> play-by-play frame returned by get_pbp_data
    player_stats,     \* season -> frame returned by get_player_stats_data
    roster,           \* season -> frame returned by get_roster_data
    phase,            \* position of the pure pipeline run: "input", "players", "done"
    players,          \* participation frame computed by get_players
    fpa_by_position,  \* aggregated frame computed by the cache-miss branch
    cache,            \* season -> the artifact cache/fpa_by_positon_<season>.pkl
    cache0,           \* the artifacts present when the process started
    pc,               \* caller -> position in get_fpa_by_position
    loc,              \* caller -> local variables of its get_fpa_by_position call
    calls,            \* the seasons of the calls started so far, in order
    computes,         \* season -> number of times the aggregation ran
    failed,           \* season -> some call for it ended with a fetch failure
    last,             \* what the most recently finished call did
    view              \* what the most recent call of a downstream consumer gave

datasets == <<pbp, player_stats, roster>>
pure == <<phase, players, fpa_by_position>>
machine == <<cache, cache0, pc, loc, calls, computes, failed, last>>
vars == <<datasets, pure, machine, view>>

-----------------------------------------------------------------------------
(* Values *)

NULL == "<NA>"
NaN == -1000

\* The season the dashboard opens with, and the one before it.
default_year == 2021
PrevYear == default_year - 1

PlayerIds == {"p1", "p2"}
Weeks == {1, 2}

\* Bound on the total number of rows of the input frames of one season.
MaxRows == 4

-----------------------------------------------------------------------------
(* Frames *)

Range(s) == {s[i] : i \in DOMAIN s}

\* The bag of the rows of a sequence.
SeqToBag(s) == [r \in Range(s) |-> Cardinality({i \in DOMAIN s : s[i] = r})]

\* df.loc[cond], S being the rows of B that satisfy cond
FilterBag(B, S) == [r \in S |-> B[r]]

\* pd.concat([A, B])
Concat(A, B) == A (+) B

\* A numeric cell as sum() reads it: missing values are skipped.
Val(x) == IF x = NaN THEN 0 ELSE x

RECURSIVE SumRows(_, _, _)
SumRows(S, B, col) ==
    IF S = {} THEN 0
    ELSE LET r == CHOOSE x \in S : TRUE
         IN  Val(r[col]) * B[r] + SumRows(S \ {r}, B, col)

\* Column col summed over the rows S of bag B.
SumWhere(B, S, col) == SumRows(S, B, col)

RECURSIVE CountRows(_, _)
CountRows(S, B) ==
    IF S = {} THEN 0
    ELSE LET r == CHOOSE x \in S : TRUE
         IN  B[r] + CountRows(S \ {r}, B)


-----------------------------------------------------------------------------
(* Participation Extractor: get_rushers, get_passers, get_receivers, get_players *)

\* df.loc[df.<idcol>.isna() == False].groupby([name, id, week, posteam, defteam],
\* dropna=False).count()[['play_id']].reset_index(), columns renamed to
\* player, player_id, plays.  Every play record carries a play_id, so the
\* count is the number of selected rows of the group; dropna=False keeps the
\* groups whose key holds a missing value.
\* GroupCount with the default dropna=True: a group whose key holds a missing
\* value is left out.
GroupCount_dropna(df, idcol, namecol) ==
    LET sel == {i \in DOMAIN df :
                   /\ df[i][idcol] # NULL
                   /\ NULL \notin {df[i][namecol], df[i].posteam, df[i].defteam}}
        Key(i) == [player    |-> df[i][namecol],
                   player_id |-> df[i][idcol],
                   week      |-> df[i].week,
                   posteam   |-> df[i].posteam,
                   defteam   |-> df[i].defteam]
    IN  {[player    |-> k.player,
          player_id |-> k.player_id,
          week      |-> k.week,
          posteam   |-> k.posteam,
          defteam   |-> k.defteam,
          plays     |-> Cardinality({i \in sel : Key(i) = k})]
         : k \in {Key(i) : i \in sel}}

GroupCount(df, idcol, namecol) ==
    LET sel == {i \in DOMAIN df : df[i][idcol] # NULL}
        Key(i) == [player    |-> df[i][namecol],
                   player_id |-> df[i][idcol],
                   week      |-> df[i].week,
                   posteam   |-> df[i].posteam,
                   defteam   |-> df[i].defteam]
    IN  {[player    |-> k.player,
          player_id |-> k.player_id,
          week      |-> k.week,
          posteam   |-> k.posteam,
          defteam   |-> k.defteam,
          plays     |-> Cardinality({i \in sel : Key(i) = k})]
         : k \in {Key(i) : i \in sel}}

get_rushers(df) == GroupCount(df, "rusher_player_id", "rusher_player_name")

get_passers(df) == GroupCount(df, "passer_player_id", "passer_player_name")

get_receivers(df) == GroupCount(df, "receiver_player_id", "receiver_player_name")

PlayerKey(r) == [player    |-> r.player,
                 player_id |-> r.player_id,
                 week      |-> r.week,
                 posteam   |-> r.posteam,
                 defteam   |-> r.defteam]

\* groupby(['player', 'player_id', 'week', 'posteam', 'defteam'],
\* dropna=False).sum()[['plays']].reset_index() of a frame with repeated keys.
SumPlays(frame) ==
    {[player    |-> k.player,
      player_id |-> k.player_id,
      week      |-> k.week,
      posteam   |-> k.posteam,
      defteam   |-> k.defteam,
      plays     |-> SumWhere(frame, {r \in DOMAIN frame : PlayerKey(r) = k}, "plays")]
     : k \in {PlayerKey(r) : r \in DOMAIN frame}}

\* get_players without the second group-by: the three role tables side by side.
get_players_unmerged(data) ==
    get_rushers(data) \cup get_passers(data) \cup get_receivers(data)

get_players(data) ==
    LET rushers   == get_rushers(data)
        passers   == get_passers(data)
        receivers == get_receivers(data)
        concat    == Concat(Concat(SetToBag(rushers), SetToBag(passers)),
                            SetToBag(receivers))
    IN  SumPlays(concat)

-----------------------------------------------------------------------------
(* Attribution Joiner *)

\* pd.concat([roster_data, roster_data_prev_year]) restricted to the rows
\* whose season is the largest season of their gsis_id in the concatenation.
\* get_two_year_roster_data without the subsetting: the two rosters concatenated.
get_two_year_roster_data_unfiltered(roster_data, roster_data_prev_year) ==
    Concat(SeqToBag(roster_data), SeqToBag(roster_data_prev_year))

get_two_year_roster_data(roster_data, roster_data_prev_year) ==
    LET two_year == Concat(SeqToBag(roster_data), SeqToBag(roster_data_prev_year))
        MaxSeason(id) ==
            LET ss == {r.season : r \in {x \in DOMAIN two_year : x.gsis_id = id}}
            IN  CHOOSE m \in ss : \A s \in ss : s <= m
    IN  FilterBag(two_year, {r \in DOMAIN two_year : MaxSeason(r.gsis_id) = r.season})

\* pd.merge(players, player_stats_data, how='inner', on=['player_id', 'week'])
JoinStats(p, s) ==
    [player             |-> p.player,
     player_id          |-> p.player_id,
     week               |-> p.week,
     posteam            |-> p.posteam,
     defteam            |-> p.defteam,
     plays              |-> p.plays,
     fantasy_points     |-> s.fantasy_points,
     fantasy_points_ppr |-> s.fantasy_points_ppr]

\* MergeStats with how='left': a participation row without a statistic is
\* kept, with missing points.
MergeStats_left(players_frame, stats_frame) ==
    LET L == SetToBag(players_frame)
        R == SeqToBag(stats_frame)
        pairs == {pr \in (DOMAIN L) \X (DOMAIN R) :
                     /\ pr[1].player_id = pr[2].player_id
                     /\ pr[1].week = pr[2].week}
        alone == {p \in DOMAIN L : ~\E pr \in pairs : pr[1] = p}
        Blank == [fantasy_points |-> NaN, fantasy_points_ppr |-> NaN]
        rows == {JoinStats(pr[1], pr[2]) : pr \in pairs}
                  \cup {JoinStats(p, Blank) : p \in alone}
    IN  [row \in rows |->
            CountRows({pr \in pairs : JoinStats(pr[1], pr[2]) = row},
                      [pr \in pairs |-> L[pr[1]] * R[pr[2]]])
            + CountRows({p \in alone : JoinStats(p, Blank) = row},
                        [p \in alone |-> L[p]])]

MergeStats(players_frame, stats_frame) ==
    LET L == SetToBag(players_frame)
        R == SeqToBag(stats_frame)
        pairs == {pr \in (DOMAIN L) \X (DOMAIN R) :
                     /\ pr[1].player_id = pr[2].player_id
                     /\ pr[1].week = pr[2].week}
        rows == {JoinStats(pr[1], pr[2]) : pr \in pairs}
    IN  [row \in rows |->
            CountRows({pr \in pairs : JoinStats(pr[1], pr[2]) = row},
                      [pr \in pairs |-> L[pr[1]] * R[pr[2]]])]

\* pd.merge(joined_data, two_year_roster_data, how='left',
\*          left_on=['player_id'], right_on=['gsis_id'])
\* A left row with no roster entry keeps missing roster columns.
JoinRoster(j, position) ==
    [player             |-> j.player,
     player_id          |-> j.player_id,
     week               |-> j.week,
     posteam            |-> j.posteam,
     defteam            |-> j.defteam,
     plays              |-> j.plays,
     fantasy_points     |-> j.fantasy_points,
     fantasy_points_ppr |-> j.fantasy_points_ppr,
     position           |-> position]

MergeRoster(joined_data, two_year_roster_data) ==
    LET L == joined_data
        R == two_year_roster_data
        Matches(j) == {e \in DOMAIN R : e.gsis_id = j.player_id}
        matched == {pr \in (DOMAIN L) \X (DOMAIN R) : pr[2] \in Matches(pr[1])}
        unmatched == {j \in DOMAIN L : Matches(j) = {}}
        rows == {JoinRoster(pr[1], pr[2].position) : pr \in matched}
                  \cup {JoinRoster(j, NULL) : j \in unmatched}
    IN  [row \in rows |->
            CountRows({pr \in matched : JoinRoster(pr[1], pr[2].position) = row},
                      [pr \in matched |-> L[pr[1]] * R[pr[2]]])
            + CountRows({j \in unmatched : JoinRoster(j, NULL) = row},
                        [j \in unmatched |-> L[j]])]

-----------------------------------------------------------------------------
(* Position Aggregator *)

\* The positions that are not "unconventional ball carriers".
SkillPositions == {"QB", "RB", "FB", "TE", "WR"}

\* The positions of the final table.
OutputPositions == {"QB", "RB", "WR", "TE", "non_skill"}

\* non_skill_pos_data.fantasy_points > 6
NonSkillThreshold == 6

GameKey(r) == [week |-> r.week, posteam |-> r.posteam, defteam |-> r.defteam]

\* tri_data.loc[tri_data.position.isin(['QB', 'RB', 'FB', 'TE', 'WR']) == False]
\* (isin is False for a missing position).
unconventional_ball_carriers(tri_data) ==
    FilterBag(tri_data, {r \in DOMAIN tri_data : r.position \notin SkillPositions})

\* A group of non_skill_pos_data as a row of fixed_data: concat fills the
\* columns non_skill_pos_data lacks with missing values.
NonSkillRow(k, points) ==
    [player             |-> NULL,
     player_id          |-> NULL,
     week               |-> k.week,
     posteam            |-> k.posteam,
     defteam            |-> k.defteam,
     plays              |-> NaN,
     fantasy_points     |-> points,
     fantasy_points_ppr |-> NaN,
     position           |-> "non_skill"]

\* non_skill_pos_data with the threshold comparison >= in place of >.
non_skill_pos_data_at_least(ubc) ==
    LET Points(k) == SumWhere(ubc, {r \in DOMAIN ubc : GameKey(r) = k}, "fantasy_points")
    IN  {NonSkillRow(k, Points(k)) :
            k \in {g \in {GameKey(r) : r \in DOMAIN ubc} : Points(g) >= NonSkillThreshold}}

\* groupby(['week', 'posteam', 'defteam'], dropna=False).sum()[['fantasy_points']],
\* the groups above the threshold, labelled non_skill.
non_skill_pos_data(ubc) ==
    LET Points(k) == SumWhere(ubc, {r \in DOMAIN ubc : GameKey(r) = k}, "fantasy_points")
    IN  {NonSkillRow(k, Points(k)) :
            k \in {g \in {GameKey(r) : r \in DOMAIN ubc} : Points(g) > NonSkillThreshold}}

\* The row that fixed_data.loc['position'] = <Series> creates: .loc with a
\* scalar selects a row label, 'position' is no label of the frame, so the
\* assignment enlarges the frame by a row labelled 'position'; the Series,
\* indexed by row number, is aligned with the column names and matches none,
\* so every cell of the new row is missing.
MissingRow ==
    [player             |-> NULL,
     player_id          |-> NULL,
     week               |-> NaN,
     posteam            |-> NULL,
     defteam            |-> NULL,
     plays              |-> NaN,
     fantasy_points     |-> NaN,
     fantasy_points_ppr |-> NaN,
     position           |-> NULL]

\* fixed_data.loc['position'] = fixed_data['position'].replace('FB', 'RB')
\* The position column itself is left as it was.
SetPositionLabel(fixed_data) == Concat(fixed_data, SetToBag({MissingRow}))

\* RestrictPositions without the filter.
RestrictPositions_all(fixed_data) == fixed_data

\* fixed_data.loc[fixed_data.position.isin(['QB', 'RB', 'WR', 'TE', 'non_skill'])]
RestrictPositions(fixed_data) ==
    FilterBag(fixed_data, {r \in DOMAIN fixed_data : r.position \in OutputPositions})

OutKey(r) == [week |-> r.week, defteam |-> r.defteam,
              posteam |-> r.posteam, position |-> r.position]

\* groupby(['week', 'defteam', 'posteam', 'position'], dropna=False)
\*   .sum()[['fantasy_points', 'fantasy_points_ppr']], index reset.
SumPoints(fixed_data) ==
    {[week               |-> k.week,
      defteam            |-> k.defteam,
      posteam            |-> k.posteam,
      position           |-> k.position,
      fantasy_points     |-> SumWhere(fixed_data, {r \in DOMAIN fixed_data : OutKey(r) = k},
                                      "fantasy_points"),
      fantasy_points_ppr |-> SumWhere(fixed_data, {r \in DOMAIN fixed_data : OutKey(r) = k},
                                      "fantasy_points_ppr")]
     : k \in {OutKey(r) : r \in DOMAIN fixed_data}}

\* The frames of the cache-miss branch of get_fpa_by_position.
JoinedData(players_frame, stats_frame) == MergeStats(players_frame, stats_frame)

TriData(players_frame, stats_frame, two_year_roster_data) ==
    MergeRoster(JoinedData(players_frame, stats_frame), two_year_roster_data)

\* The cache-miss branch from the participation frame on.
Aggregate(players_frame, stats_frame, two_year_roster_data) ==
    LET tri_data   == TriData(players_frame, stats_frame, two_year_roster_data)
        ubc        == unconventional_ball_carriers(tri_data)
        non_skill  == non_skill_pos_data(ubc)
        fixed_data == Concat(tri_data, SetToBag(non_skill))
        labelled   == SetPositionLabel(fixed_data)
        restricted == RestrictPositions(labelled)
    IN  SumPoints(restricted)

\* The table the cache-miss branch computes for a season from the three
\* datasets.
ComputeFpa(year) ==
    Aggregate(get_players(pbp[year]), player_stats[year],
              get_two_year_roster_data(roster[year], roster[year - 1]))

-----------------------------------------------------------------------------
(* Downstream consumers of the aggregated table *)

\* The result of a consumer: an exception, or a frame with its columns and
\* rows (for get_final_week, a number).
Raised == [raised |-> TRUE, columns |-> {}, rows |-> {}, value |-> NaN]
Frame(columns, rows) ==
    [raised |-> FALSE, columns |-> columns, rows |-> rows, value |-> NaN]
Number(n) == [raised |-> FALSE, columns |-> {}, rows |-> {}, value |-> n]

TableColumns == {"week", "defteam", "posteam", "position",
                 "fantasy_points", "fantasy_points_ppr"}

\* The largest element of a non-empty set of numbers.
Max(S) == CHOOSE m \in S : \A x \in S : x <= m

\* mean() of a column over a non-empty set of rows, as the pair sum, count.
Mean(rows, col) ==
    [sum |-> SumRows(rows, [r \in rows |-> 1], col), count |-> Cardinality(rows)]

\* weeks = fpa_by_position['week'].unique(); int(weeks.max())
\* max() of an array of size zero raises ValueError.
get_final_week(table) ==
    IF table = {} THEN Raised
    ELSE Number(Max({r.week : r \in table}))

\* get_fpa_data from the frame get_fpa_by_position returned.  The columns
\* opp_avg and opp_avg_ppr come to exist by the assignments of the loop over
\* the rows of fpa_data, so a frame without rows does not have them.
get_fpa_data(table, pos, include_final_week) ==
    IF get_final_week(table).raised THEN Raised
    ELSE LET bool_inc_final_week == include_final_week # <<>>
             max_week == get_final_week(table).value
             fpa_data == {r \in table :
                             /\ r.position = pos
                             /\ (bool_inc_final_week \/ r.week # max_week)}
             Opp(r) == {x \in fpa_data : x.posteam = r.posteam}
         IN  Frame(IF fpa_data = {} THEN TableColumns
                   ELSE TableColumns \cup {"opp_avg", "opp_avg_ppr"},
                   {[week               |-> r.week,
                     defteam            |-> r.defteam,
                     posteam            |-> r.posteam,
                     position           |-> r.position,
                     fantasy_points     |-> r.fantasy_points,
                     fantasy_points_ppr |-> r.fantasy_points_ppr,
                     opp_avg            |-> Mean(Opp(r), "fantasy_points"),
                     opp_avg_ppr        |-> Mean(Opp(r), "fantasy_points_ppr")]
                    : r \in fpa_data})

\* get_def_avg_barchart_data: one row per defteam of fpa_data.  Selecting
\* the columns opp_avg and opp_avg_ppr of the grouped means raises KeyError
\* when fpa_data does not have them.  Of the columns of the result the model
\* keeps defteam and the two means of points; the others are arithmetic on
\* them and on the opponent averages, and the sort changes the row order only.
get_def_avg_barchart_data(table, pos, scoring_system, include_final_week, graph_type) ==
    LET fpa_data == get_fpa_data(table, pos, include_final_week)
        Of(d) == {r \in fpa_data.rows : r.defteam = d}
    IN  IF fpa_data.raised THEN Raised
        ELSE IF ~({"opp_avg", "opp_avg_ppr"} \subseteq fpa_data.columns) THEN Raised
        ELSE Frame({"defteam", "fantasy_points", "fantasy_points_ppr"},
                   {[defteam            |-> d,
                     fantasy_points     |-> Mean(Of(d), "fantasy_points"),
                     fantasy_points_ppr |-> Mean(Of(d), "fantasy_points_ppr")]
                    : d \in {r.defteam : r \in fpa_data.rows}})

\* get_weekly_linechart_data: the rows of fpa_data of one defense.  Reading
\* fpa_data['opp_avg_ppr'] for the half-PPR column raises KeyError when
\* fpa_data does not have it.
get_weekly_linechart_data(table, pos, scoring_system, include_final_week, graph_type, team) ==
    LET fpa_data == get_fpa_data(table, pos, include_final_week)
    IN  IF fpa_data.raised THEN Raised
        ELSE IF ~({"opp_avg", "opp_avg_ppr"} \subseteq fpa_data.columns) THEN Raised
        ELSE Frame(fpa_data.columns \cup {"fantasy_points_half_ppr", "opp_avg_half_ppr"},
                   {r \in fpa_data.rows : r.defteam = team})

\* The barchart callback: the bars of the figure are the rows of df.  With
\* graph type Raw the baseline is read from df.iloc[0], which raises
\* IndexError on a frame without rows.
update_barchart_season(table, pos, scoring_system, include_final_week, graph_type) ==
    LET df == get_def_avg_barchart_data(table, pos, scoring_system,
                                        include_final_week, graph_type)
    IN  IF df.raised THEN Raised
        ELSE IF graph_type = "Raw" /\ df.rows = {} THEN Raised
        ELSE Frame(df.columns, df.rows)

\* The linechart callback: an empty figure when no team is selected.
update_weekly_components(table, pos, scoring_system, include_final_week, graph_type, team) ==
    IF team = NULL THEN Frame({}, {})
    ELSE LET weekly_data == get_weekly_linechart_data(table, pos, scoring_system,
                                                      include_final_week, graph_type, team)
         IN  IF weekly_data.raised THEN Raised
             ELSE Frame(weekly_data.columns, weekly_data.rows)

\* The checkbox callback: ['Include Week ' + str(get_final_week(year))]
update_checkbox_include_final_week(table) == get_final_week(table)

\* A consumer call with its arguments and its result.
View(consumer, pos, scoring_system, include_final_week, graph_type, team, result) ==
    [consumer           |-> consumer,
     pos                |-> pos,
     scoring_system     |-> scoring_system,
     include_final_week |-> include_final_week,
     graph_type         |-> graph_type,
     team               |-> team,
     result             |-> result]

NoView == View("none", NULL, NULL, <<>>, NULL, NULL, Frame({}, {}))

-----------------------------------------------------------------------------
(* The datasets of one season, drawn from a bounded universe of rows *)

Play(week, teams, rusher, passer, receiver) ==
    [week                 |-> week,
     posteam              |-> teams[1],
     defteam              |-> teams[2],
     rusher_player_id     |-> rusher[1],
     rusher_player_name   |-> rusher[2],
     passer_player_id     |-> passer[1],
     passer_player_name   |-> passer[2],
     receiver_player_id   |-> receiver[1],
     receiver_player_name |-> receiver[2]]

Nobody == <<NULL, NULL>>

Stat(id, week, points, ppr) ==
    [player_id |-> id, week |-> week,
     fantasy_points |-> points, fantasy_points_ppr |-> ppr]

Entry(id, season, position) ==
    [gsis_id |-> id, season |-> season, position |-> position]

\* The rows an input may hold, each tagged with the dataset it belongs to.
\* Player p1 is spelled "A" and "A2" in the play-by-play data, and one play
\* has no offense team.
InputRows ==
    << [table |-> "pbp",    row |-> Play(1, <<"NE", "MIA">>, <<"p1", "A">>, Nobody, Nobody)],
       [table |-> "pbp",    row |-> Play(1, <<"NE", "MIA">>, <<"p1", "A2">>, Nobody, Nobody)],
       [table |-> "pbp",    row |-> Play(1, <<"NE", "MIA">>, Nobody, <<"p2", "B">>, <<"p1", "A">>)],
       [table |-> "pbp",    row |-> Play(1, <<"NE", "MIA">>, <<"p2", "B">>, Nobody, Nobody)],
       [table |-> "pbp",    row |-> Play(1, <<"MIA", "NE">>, <<"p2", "B">>, Nobody, Nobody)],
       [table |-> "pbp",    row |-> Play(2, <<"NE", "MIA">>, <<"p1", "A">>, Nobody, Nobody)],
       [table |-> "pbp",    row |-> Play(1, <<NULL, "MIA">>, <<"p1", "A">>, Nobody, <<"p2", "B">>)],
       [table |-> "stats",  row |-> Stat("p1", 1, 3, 4)],
       [table |-> "stats",  row |-> Stat("p1", 1, 7, 9)],
       [table |-> "stats",  row |-> Stat("p1", 2, 3, 4)],
       [table |-> "stats",  row |-> Stat("p1", 2, 7, 9)],
       [table |-> "stats",  row |-> Stat("p2", 1, 3, 3)],
       [table |-> "stats",  row |-> Stat("p2", 1, 7, 7)],
       [table |-> "stats",  row |-> Stat("p2", 1, -2, -2)],
       [table |-> "roster", row |-> Entry("p1", default_year, "RB")],
       [table |-> "roster", row |-> Entry("p1", default_year, "FB")],
       [table |-> "roster", row |-> Entry("p1", default_year, "K")],
       [table |-> "roster", row |-> Entry("p2", default_year, "RB")],
       [table |-> "roster", row |-> Entry("p2", default_year, "QB")],
       [table |-> "prev",   row |-> Entry("p1", PrevYear, "WR")],
       [table |-> "prev",   row |-> Entry("p1", PrevYear, "K")],
       [table |-> "prev",   row |-> Entry("p2", PrevYear, "TE")] >>

\* The non-decreasing sequences of n indices of InputRows, none below lo.
RECURSIVE Picks(_, _)
Picks(n, lo) ==
    IF n = 0 THEN {<<>>}
    ELSE UNION {{<<k>> \o t : t \in Picks(n - 1, k)} : k \in lo..Len(InputRows)}

\* The rows of one dataset among the picked rows, in order.
RECURSIVE Table(_, _)
Table(pick, table) ==
    IF pick = <<>> THEN <<>>
    ELSE IF InputRows[Head(pick)].table = table
         THEN <<InputRows[Head(pick)].row>> \o Table(Tail(pick), table)
         ELSE Table(Tail(pick), table)

\* The statistics dataset holds one row per (player id, week).
StatsKeyed(stats) ==
    \A i, j \in DOMAIN stats :
        (stats[i].player_id = stats[j].player_id /\ stats[i].week = stats[j].week)
            => i = j

Inputs ==
    {pick \in UNION {Picks(n, 1) : n \in 0..MaxRows} : StatsKeyed(Table(pick, "stats"))}

Seasons == {PrevYear, default_year}
RosterSeasons == {PrevYear - 1} \cup Seasons

-----------------------------------------------------------------------------
(* get_fpa_by_position and the per-season cache artifact *)

Callers == {"u1", "u2"}

\* Bound on the number of get_fpa_by_position calls of a run.
MaxCalls == 3

\* os.path.exists(cache_path) and the pickled frame.  The file exists from
\* the moment to_pickle opens it for writing; it is complete once the pickle
\* is written and the file closed.
NoArtifact == [exists |-> FALSE, complete |-> FALSE, content |-> {}]
Artifact(frame) == [exists |-> TRUE, complete |-> TRUE, content |-> frame]
TornArtifact == [exists |-> TRUE, complete |-> FALSE, content |-> {}]

\* The locals of a call: fpa_by_position = {} at entry (line 146).
Locals(year) ==
    [year                  |-> year,
     hit                   |-> FALSE,
     before                |-> NoArtifact,
     data                  |-> <<>>,
     players               |-> {},
     player_stats_data     |-> <<>>,
     roster_data           |-> <<>>,
     roster_data_prev_year |-> <<>>,
     fpa_by_position       |-> {},
     fetched               |-> 0,
     computed              |-> FALSE,
     wrote                 |-> FALSE]

\* What a finished call did: how it ended, the frame it returned, whether it
\* found the artifact, the artifact before and after it, and its effects.
Outcome(l, status, frame, after) ==
    [year     |-> l.year,
     status   |-> status,
     table    |-> frame,
     hit      |-> l.hit,
     before   |-> l.before,
     after    |-> after,
     fetched  |-> l.fetched,
     computed |-> l.computed,
     wrote    |-> l.wrote]

NoOutcome == Outcome(Locals(default_year), "none", {}, NoArtifact)

NoCalls ==
    /\ cache0 = cache
    /\ pc = [c \in Callers |-> "idle"]
    /\ loc = [c \in Callers |-> Locals(default_year)]
    /\ calls = <<>>
    /\ computes = [y \in Seasons |-> 0]
    /\ failed = [y \in Seasons |-> FALSE]
    /\ last = NoOutcome

-----------------------------------------------------------------------------
(* The aggregation as a pure function of the three datasets *)

InitPipeline ==
    \E pick \in Inputs :
        /\ pbp = [y \in Seasons |->
                    IF y = default_year THEN Table(pick, "pbp") ELSE <<>>]
        /\ player_stats = [y \in Seasons |->
                    IF y = default_year THEN Table(pick, "stats") ELSE <<>>]
        /\ roster = [y \in RosterSeasons |->
                    IF y = default_year THEN Table(pick, "roster")
                    ELSE IF y = PrevYear THEN Table(pick, "prev") ELSE <<>>]
        /\ phase = "input"
        /\ players = {}
        /\ fpa_by_position = {}
        /\ cache = [y \in Seasons |-> NoArtifact]
        /\ NoCalls
        /\ view = NoView

\* players = get_players(data)
GetPlayers ==
    /\ phase = "input"
    /\ players' = get_players(pbp[default_year])
    /\ phase' = "players"
    /\ UNCHANGED <<datasets, fpa_by_position, machine, view>>

\* The merges, the non_skill bucket and the final group-by.
AggregatePoints ==
    /\ phase = "players"
    /\ fpa_by_position' =
          Aggregate(players, player_stats[default_year],
                    get_two_year_roster_data(roster[default_year], roster[PrevYear]))
    /\ phase' = "done"
    /\ UNCHANGED <<datasets, players, machine, view>>

NextPipeline == GetPlayers \/ AggregatePoints

SpecPipeline == InitPipeline /\ [][NextPipeline]_vars

-----------------------------------------------------------------------------
(* What the datasets of the season say, read off row by row *)

Data == pbp[default_year]
Stats == player_stats[default_year]

Roles == {<<"rusher_player_id", "rusher_player_name">>,
          <<"passer_player_id", "passer_player_name">>,
          <<"receiver_player_id", "receiver_player_name">>}

\* A play record together with a role that a player fills in it.
Appearances == {a \in (DOMAIN Data) \X Roles : Data[a[1]][a[2][1]] # NULL}

Participant(a) ==
    [player    |-> Data[a[1]][a[2][2]],
     player_id |-> Data[a[1]][a[2][1]],
     week      |-> Data[a[1]].week,
     posteam   |-> Data[a[1]].posteam,
     defteam   |-> Data[a[1]].defteam]

Participants == {Participant(a) : a \in Appearances}

\* The roster entries of the two seasons, by file and row number.
RosterEntries == {e \in {PrevYear, default_year} \X (1..MaxRows + 1) :
                     e[2] \in DOMAIN roster[e[1]]}
EntryAt(e) == roster[e[1]][e[2]]
NoEntry == <<0, 0>>

\* The entries of a player's most recent season.
RecentEntries(id) ==
    {e \in RosterEntries :
        /\ EntryAt(e).gsis_id = id
        /\ \A f \in RosterEntries :
              EntryAt(f).gsis_id = id => EntryAt(f).season <= EntryAt(e).season}

\* An attributed row: a participation key, a statistic of that player and
\* week, and an entry of the player's most recent season (none when the
\* player is on neither roster).
Attributed ==
    {t \in Participants \X (DOMAIN Stats) \X (RosterEntries \cup {NoEntry}) :
        /\ Stats[t[2]].player_id = t[1].player_id
        /\ Stats[t[2]].week = t[1].week
        /\ \/ t[3] \in RecentEntries(t[1].player_id)
           \/ t[3] = NoEntry /\ RecentEntries(t[1].player_id) = {}}

PositionOf(t) == IF t[3] = NoEntry THEN NULL ELSE EntryAt(t[3]).position
GameOf(t) == GameKey(t[1])

\* The sum of a column of the statistics over a set of tuples whose second
\* component is the row number of a statistic.
RECURSIVE SumOf(_, _)
SumOf(S, col) ==
    IF S = {} THEN 0
    ELSE LET x == CHOOSE y \in S : TRUE
         IN  Stats[x[2]][col] + SumOf(S \ {x}, col)

Games == {GameKey(p) : p \in Participants}

OutRows(g, position) ==
    {r \in fpa_by_position : GameKey(r) = g /\ r.position = position}

-----------------------------------------------------------------------------
(* Claims about the aggregation pipeline (checked under SpecPipeline) *)

AttributedAt(g, positions) ==
    {t \in Attributed : GameOf(t) = g /\ PositionOf(t) \in positions}

\* C1: every row of the table computed on a cache miss has a position in
\* {QB, RB, WR, TE, non_skill}; no row has a missing or any other position.
C1_PositionsInFixedSet ==
    phase = "done" =>
        \A r \in fpa_by_position :
            r.position \in {"QB", "RB", "WR", "TE", "non_skill"}

\* A computed table with a non_skill row, from datasets that attribute
\* points to a fullback as well.
C1_Witness ==
    /\ phase = "done"
    /\ \E r \in fpa_by_position : r.position = "non_skill"
    /\ \E t \in Attributed : PositionOf(t) = "FB"

\* C2: the fantasy points of a player whose most recent roster position is
\* FB, who has a participation row and a matching statistic, are part of the
\* RB row of that game: the game has an RB row, and it sums the points
\* attributed to the game's RB and FB players.
C2_FullbackCountedAsRB ==
    phase = "done" =>
        \A t \in Attributed :
            PositionOf(t) = "FB" =>
                /\ OutRows(GameOf(t), "RB") # {}
                /\ \A r \in OutRows(GameOf(t), "RB") :
                      r.fantasy_points =
                          SumOf(AttributedAt(GameOf(t), {"RB", "FB"}), "fantasy_points")

NonSkillPoints(g) ==
    SumOf({t \in Attributed :
              GameOf(t) = g /\ PositionOf(t) \notin {"QB", "RB", "FB", "TE", "WR"}},
          "fantasy_points")

\* C3: the table has a non_skill row for a game exactly when the standard
\* points of the game's attributed rows with a position outside
\* {QB, RB, FB, TE, WR} (missing included) sum to more than 6; the row then
\* holds that sum; and those points are in no other row: a row of a skill
\* position holds the points attributed to that position only (stated for RB
\* in the games where no fullback is attributed).
C3_NonSkillBucket ==
    phase = "done" =>
        \A g \in Games \cup {GameKey(r) : r \in fpa_by_position} :
            /\ (OutRows(g, "non_skill") # {}) <=> (NonSkillPoints(g) > 6)
            /\ Cardinality(OutRows(g, "non_skill")) <= 1
            /\ \A r \in OutRows(g, "non_skill") : r.fantasy_points = NonSkillPoints(g)
            /\ \A p \in {"QB", "RB", "WR", "TE"} :
                  (p = "RB" => AttributedAt(g, {"FB"}) = {}) =>
                      /\ (OutRows(g, p) # {}) <=> (AttributedAt(g, {p}) # {})
                      /\ \A r \in OutRows(g, p) :
                            r.fantasy_points = SumOf(AttributedAt(g, {p}), "fantasy_points")

\* A kicker's points above the threshold, reported in a non_skill row.
C3_Witness ==
    /\ phase = "done"
    /\ \E t \in Attributed :
          /\ PositionOf(t) = "K"
          /\ OutRows(GameOf(t), "non_skill") # {}
          /\ NonSkillPoints(GameOf(t)) > 6

\* The player-week statistics that count for a position in a game: those of
\* the players of that position who took part in the game.
Contributors(g, p) == {<<t[1].player_id, t[2]>> : t \in AttributedAt(g, {p})}

\* C4: for every game and position in {QB, RB, WR, TE} the row's
\* fantasy_points and fantasy_points_ppr are the sums of the week statistics
\* of the players of that position who took part in the game, each
\* statistic counted once whatever the number of plays, roles, name
\* spellings or roster entries of the player (stated for the games in which
\* no fullback is attributed, so that the folding of FB plays no part).
C4_EachStatisticOnce ==
    phase = "done" =>
        \A g \in Games : \A p \in {"QB", "RB", "WR", "TE"} :
            AttributedAt(g, {"FB"}) = {} =>
                /\ (OutRows(g, p) # {}) <=> (Contributors(g, p) # {})
                /\ \A r \in OutRows(g, p) :
                      /\ r.fantasy_points =
                            SumOf(Contributors(g, p), "fantasy_points")
                      /\ r.fantasy_points_ppr =
                            SumOf(Contributors(g, p), "fantasy_points_ppr")

\* C5: get_players returns exactly one row per distinct (player name,
\* player id, week, posteam, defteam), and its plays is the number of play
\* records with that player as rusher, passer or receiver for that key.
C5_OneRowPerPlayerGame ==
    phase # "input" =>
        /\ {PlayerKey(r) : r \in players} = Participants
        /\ \A k \in Participants :
              Cardinality({r \in players : PlayerKey(r) = k}) = 1
        /\ \A r \in players :
              r.plays = Cardinality({a \in Appearances : Participant(a) = PlayerKey(r)})

\* A player with a rushing and a receiving play in the same game.
C5_Witness ==
    /\ phase = "players"
    /\ \E r \in players :
          /\ r.plays >= 2
          /\ \E a, b \in Appearances :
                /\ Participant(a) = PlayerKey(r)
                /\ Participant(b) = PlayerKey(r)
                /\ a[2][1] = "rusher_player_id"
                /\ b[2][1] = "receiver_player_id"

-----------------------------------------------------------------------------
(* Claims about keys with a missing team (checked under SpecPipeline) *)

\* The appearances in plays without an offense team or a defense team.
TeamlessAppearances ==
    {a \in Appearances : NULL \in {Data[a[1]].posteam, Data[a[1]].defteam}}

\* C13: a play with a rusher, passer or receiver id and a missing offense or
\* defense team is counted in a participation row whose key has the missing
\* team, so that the plays of all participation rows add up to the number
\* of role ids present in the play records.
C13_NullTeamKeysRetained ==
    phase # "input" =>
        /\ \A a \in TeamlessAppearances :
              \E r \in players :
                  /\ r.player_id = Data[a[1]][a[2][1]]
                  /\ r.week = Data[a[1]].week
                  /\ r.posteam = Data[a[1]].posteam
                  /\ r.defteam = Data[a[1]].defteam
                  /\ r.plays >= 1
        /\ SumRows(players, SetToBag(players), "plays") = Cardinality(Appearances)

\* A participation table with a row of a play without offense team next to
\* a row of a play with both teams.
C13_Witness ==
    /\ phase = "players"
    /\ TeamlessAppearances # {}
    /\ \E r \in players : r.posteam = NULL /\ r.plays >= 1
    /\ \E r \in players : r.posteam # NULL /\ r.defteam # NULL

-----------------------------------------------------------------------------
(* Claims about rows the attribution join does not match (SpecPipeline) *)

\* A participation row with a statistic of its player and week, and a
\* statistic with a participation row of its player and week.
HasStatistic(p) ==
    \E i \in DOMAIN Stats :
        Stats[i].player_id = p.player_id /\ Stats[i].week = p.week

HasParticipation(s) ==
    \E p \in players : p.player_id = s.player_id /\ p.week = s.week

\* C14: a participation row without a statistic for its player and week
\* contributes to no row of the table, skill position or non_skill, and
\* neither does a statistic without a participation row: every row of the
\* table belongs to a game with a matched participation row, and the table
\* is the one computed from the matched participation rows and the matched
\* statistics alone.
C14_UnmatchedContributeNothing ==
    phase = "done" =>
        /\ \A r \in fpa_by_position :
              \E p \in players : HasStatistic(p) /\ GameKey(p) = GameKey(r)
        /\ fpa_by_position =
              Aggregate({p \in players : HasStatistic(p)},
                        SelectSeq(Stats, HasParticipation),
                        get_two_year_roster_data(roster[default_year], roster[PrevYear]))

\* A table with a row, computed from datasets with a participation row that
\* has no statistic and a statistic that has no participation row.
C14_Witness ==
    /\ phase = "done"
    /\ fpa_by_position # {}
    /\ \E p \in players : ~HasStatistic(p)
    /\ \E i \in DOMAIN Stats : ~HasParticipation(Stats[i])

-----------------------------------------------------------------------------
(* Claims about the roster of two seasons (checked under SpecPipeline) *)

\* The entries of a player in the roster file of one season.
EntriesIn(id, year) ==
    {e \in RosterEntries : e[1] = year /\ EntryAt(e).gsis_id = id}

RosterIds == {EntryAt(e).gsis_id : e \in RosterEntries}

\* C12: get_two_year_roster_data keeps, as often as they occur, exactly the
\* entries of the two rosters whose season is the largest season of their
\* player id in the two; for a player on both rosters these are the entries
\* of the current season, for a player on the previous roster only they are
\* the entries of the previous season.
C12_LatestSeasonEntries ==
    LET kept == get_two_year_roster_data(roster[default_year], roster[PrevYear])
    IN  phase = "done" =>
          /\ \A r \in DOMAIN kept :
                \E e \in RosterEntries : EntryAt(e) = r
          /\ \A e \in RosterEntries :
                LET r == EntryAt(e)
                    same == {f \in RecentEntries(r.gsis_id) : EntryAt(f) = r}
                IN  IF e \in RecentEntries(r.gsis_id)
                    THEN r \in DOMAIN kept /\ kept[r] = Cardinality(same)
                    ELSE r \notin DOMAIN kept
          /\ \A id \in RosterIds :
                /\ EntriesIn(id, default_year) # {} =>
                      RecentEntries(id) = EntriesIn(id, default_year)
                /\ EntriesIn(id, default_year) = {} =>
                      RecentEntries(id) = EntriesIn(id, PrevYear)

\* One player on both rosters, whose previous-season entry is left out, and
\* another on the previous roster only, whose entry is kept.
C12_Witness ==
    LET kept == get_two_year_roster_data(roster[default_year], roster[PrevYear])
    IN  /\ phase = "done"
        /\ \E id \in RosterIds :
              /\ EntriesIn(id, default_year) # {}
              /\ \E e \in EntriesIn(id, PrevYear) : EntryAt(e) \notin DOMAIN kept
        /\ \E id \in RosterIds :
              /\ EntriesIn(id, default_year) = {}
              /\ \E e \in EntriesIn(id, PrevYear) : EntryAt(e) \in DOMAIN kept

-----------------------------------------------------------------------------
(* The request-driven process: calls of get_fpa_by_position, one at a time *)

\* The datasets of the two seasons the calls ask for.  In the first world
\* p1 is a running back of the current season and p2 is on no roster; in the
\* second p1 is on the previous season's roster only; the third is empty.
Worlds ==
    { [pbp    |-> (PrevYear :> <<Play(1, <<"MIA", "NE">>, <<"p2", "B">>, Nobody, Nobody)>>
                   @@ default_year :> <<Play(1, <<"NE", "MIA">>, <<"p1", "A">>, Nobody, Nobody)>>),
       stats  |-> (PrevYear :> <<Stat("p2", 1, 7, 7)>>
                   @@ default_year :> <<Stat("p1", 1, 7, 9)>>),
       roster |-> (PrevYear - 1 :> <<>>
                   @@ PrevYear :> <<Entry("p1", PrevYear, "WR")>>
                   @@ default_year :> <<Entry("p1", default_year, "RB")>>)],
      [pbp    |-> (PrevYear :> <<Play(2, <<"NE", "MIA">>, <<"p1", "A">>, Nobody, Nobody)>>
                   @@ default_year :> <<Play(1, <<"NE", "MIA">>, <<"p1", "A">>, Nobody, Nobody)>>),
       stats  |-> (PrevYear :> <<Stat("p1", 2, 3, 4)>>
                   @@ default_year :> <<Stat("p1", 1, 3, 4)>>),
       roster |-> (PrevYear - 1 :> <<Entry("p1", PrevYear - 1, "TE")>>
                   @@ PrevYear :> <<Entry("p1", PrevYear, "WR")>>
                   @@ default_year :> <<>>)],
      [pbp    |-> [y \in Seasons |-> <<>>],
       stats  |-> [y \in Seasons |-> <<>>],
       roster |-> [y \in RosterSeasons |-> <<>>]] }

\* An artifact left by an earlier process; it need not be what the current
\* datasets would give.
OldTable ==
    {[week |-> 1, defteam |-> "MIA", posteam |-> "NE", position |-> "QB",
      fantasy_points |-> 5, fantasy_points_ppr |-> 5]}

Init ==
    /\ \E w \in Worlds :
          /\ pbp = w.pbp
          /\ player_stats = w.stats
          /\ roster = w.roster
    /\ phase = "input"
    /\ players = {}
    /\ fpa_by_position = {}
    /\ cache \in [Seasons -> {NoArtifact, Artifact(OldTable)}]
    /\ NoCalls
    /\ view = NoView

Goto(c, label) == pc' = [pc EXCEPT ![c] = label]

\* Entry of get_fpa_by_position(year); a request is served to its end before
\* the next one starts.
CallStart(c, year) ==
    /\ \A d \in Callers : pc[d] = "idle"
    /\ Len(calls) < MaxCalls
    /\ calls' = Append(calls, year)
    /\ loc' = [loc EXCEPT ![c] = Locals(year)]
    /\ Goto(c, "exists")
    /\ UNCHANGED <<datasets, pure, view, cache, cache0, computes, failed, last>>

\* CallExists taking the else branch whatever the artifact: always recompute.
CallExists_recompute(c) ==
    /\ pc[c] = "exists"
    /\ loc' = [loc EXCEPT ![c].before = cache[loc[c].year]]
    /\ Goto(c, "get_pbp_data")
    /\ UNCHANGED <<datasets, pure, view, cache, cache0, calls, computes, failed, last>>

\* if os.path.exists(cache_path)
CallExists(c) ==
    /\ pc[c] = "exists"
    /\ loc' = [loc EXCEPT ![c].hit = cache[loc[c].year].exists,
                          ![c].before = cache[loc[c].year]]
    /\ Goto(c, IF cache[loc[c].year].exists THEN "read_pickle" ELSE "get_pbp_data")
    /\ UNCHANGED <<datasets, pure, view, cache, cache0, calls, computes, failed, last>>

\* fpa_by_position = pd.read_pickle(cache_path)
CallReadPickle(c) ==
    /\ pc[c] = "read_pickle"
    /\ cache[loc[c].year].complete
    /\ loc' = [loc EXCEPT ![c].fpa_by_position = cache[loc[c].year].content]
    /\ Goto(c, "return")
    /\ UNCHANGED <<datasets, pure, view, cache, cache0, calls, computes, failed, last>>

\* data = get_pbp_data(year)
CallGetPbpData(c) ==
    /\ pc[c] = "get_pbp_data"
    /\ loc' = [loc EXCEPT ![c].data = pbp[loc[c].year],
                          ![c].fetched = @ + 1]
    /\ Goto(c, "get_players")
    /\ UNCHANGED <<datasets, pure, view, cache, cache0, calls, computes, failed, last>>

\* players = get_players(data)
CallGetPlayers(c) ==
    /\ pc[c] = "get_players"
    /\ loc' = [loc EXCEPT ![c].players = get_players(loc[c].data)]
    /\ Goto(c, "get_player_stats_data")
    /\ UNCHANGED <<datasets, pure, view, cache, cache0, calls, computes, failed, last>>

\* player_stats_data = get_player_stats_data(year)
CallGetPlayerStatsData(c) ==
    /\ pc[c] = "get_player_stats_data"
    /\ loc' = [loc EXCEPT ![c].player_stats_data = player_stats[loc[c].year],
                          ![c].fetched = @ + 1]
    /\ Goto(c, "get_roster_data")
    /\ UNCHANGED <<datasets, pure, view, cache, cache0, calls, computes, failed, last>>

\* roster_data = get_roster_data(year), in get_two_year_roster_data
CallGetRosterData(c) ==
    /\ pc[c] = "get_roster_data"
    /\ loc' = [loc EXCEPT ![c].roster_data = roster[loc[c].year],
                          ![c].fetched = @ + 1]
    /\ Goto(c, "get_roster_data_prev")
    /\ UNCHANGED <<datasets, pure, view, cache, cache0, calls, computes, failed, last>>

\* roster_data_prev_year = get_roster_data(year - 1)
CallGetRosterDataPrev(c) ==
    /\ pc[c] = "get_roster_data_prev"
    /\ loc' = [loc EXCEPT ![c].roster_data_prev_year = roster[loc[c].year - 1],
                          ![c].fetched = @ + 1]
    /\ Goto(c, "aggregate")
    /\ UNCHANGED <<datasets, pure, view, cache, cache0, calls, computes, failed, last>>

\* The rest of get_two_year_roster_data, the merges and the group-bys.
CallAggregate(c) ==
    /\ pc[c] = "aggregate"
    /\ loc' = [loc EXCEPT
          ![c].fpa_by_position =
              Aggregate(loc[c].players, loc[c].player_stats_data,
                        get_two_year_roster_data(loc[c].roster_data,
                                                 loc[c].roster_data_prev_year)),
          ![c].computed = TRUE]
    /\ computes' = [computes EXCEPT ![loc[c].year] = @ + 1]
    /\ Goto(c, "to_pickle")
    /\ UNCHANGED <<datasets, pure, view, cache, cache0, calls, failed, last>>

\* CallToPickle with the save left out, as the csv saves of the fetchers are.
CallToPickle_unsaved(c) ==
    /\ pc[c] = "to_pickle"
    /\ Goto(c, "return")
    /\ UNCHANGED <<datasets, pure, view, cache, cache0, loc, calls, computes, failed, last>>

\* fpa_by_position.to_pickle(cache_path)
CallToPickle(c) ==
    /\ pc[c] = "to_pickle"
    /\ cache' = [cache EXCEPT ![loc[c].year] = Artifact(loc[c].fpa_by_position)]
    /\ loc' = [loc EXCEPT ![c].wrote = TRUE]
    /\ Goto(c, "return")
    /\ UNCHANGED <<datasets, pure, view, cache0, calls, computes, failed, last>>

\* return fpa_by_position
CallReturn(c) ==
    /\ pc[c] = "return"
    /\ last' = Outcome(loc[c], "returned", loc[c].fpa_by_position, cache[loc[c].year])
    /\ loc' = [loc EXCEPT ![c] = Locals(default_year)]
    /\ Goto(c, "idle")
    /\ UNCHANGED <<datasets, pure, view, cache, cache0, calls, computes, failed>>

\* CallFetchFails with the exception caught: the call goes on to save and
\* return the frame it holds, fpa_by_position = {}.
CallFetchFails_caught(c) ==
    /\ pc[c] \in {"get_pbp_data", "get_player_stats_data",
                  "get_roster_data", "get_roster_data_prev"}
    /\ failed' = [failed EXCEPT ![loc[c].year] = TRUE]
    /\ Goto(c, "to_pickle")
    /\ UNCHANGED <<datasets, pure, view, cache, cache0, loc, calls, computes, last>>

\* pd.read_csv raises in one of the four fetches: nothing catches it, the call
\* ends there and the exception reaches the caller.
CallFetchFails(c) ==
    /\ pc[c] \in {"get_pbp_data", "get_player_stats_data",
                  "get_roster_data", "get_roster_data_prev"}
    /\ last' = Outcome(loc[c], "raised", {}, cache[loc[c].year])
    /\ failed' = [failed EXCEPT ![loc[c].year] = TRUE]
    /\ loc' = [loc EXCEPT ![c] = Locals(default_year)]
    /\ Goto(c, "idle")
    /\ UNCHANGED <<datasets, pure, view, cache, cache0, calls, computes>>

CallStep(c) ==
    \/ CallExists(c)
    \/ CallReadPickle(c)
    \/ CallGetPbpData(c)
    \/ CallGetPlayers(c)
    \/ CallGetPlayerStatsData(c)
    \/ CallGetRosterData(c)
    \/ CallGetRosterDataPrev(c)
    \/ CallAggregate(c)
    \/ CallToPickle(c)
    \/ CallReturn(c)
    \/ CallFetchFails(c)

Next ==
    \/ \E c \in Callers, year \in Seasons : CallStart(c, year)
    \/ \E c \in Callers : CallStep(c)

Spec == Init /\ [][Next]_vars

-----------------------------------------------------------------------------
(* Claims about the cache (checked under Spec) *)

\* C6: a call that finds the season's artifact returns its content, fetches
\* no play-by-play, statistics or roster data, does not recompute and does
\* not write; an artifact present at the start is the same after any number
\* of calls.
C6_ArtifactIsAuthoritative ==
    /\ \A y \in Seasons : cache0[y].exists => cache[y] = cache0[y]
    /\ \A c \in Callers :
          (pc[c] \notin {"idle", "exists"} /\ loc[c].before.exists) =>
              /\ pc[c] \in {"read_pickle", "return"}
              /\ loc[c].fetched = 0
              /\ ~loc[c].computed
              /\ ~loc[c].wrote
    /\ (last.status # "none" /\ last.before.exists) =>
          /\ last.status = "returned"
          /\ last.table = last.before.content
          /\ last.fetched = 0
          /\ ~last.computed
          /\ ~last.wrote
          /\ last.after = last.before

\* A second or later call returning an artifact of an earlier process that
\* differs from what the datasets give.
C6_Witness ==
    /\ last.status = "returned"
    /\ last.before.exists
    /\ Len(calls) >= 2
    /\ last.table = OldTable
    /\ last.table # ComputeFpa(last.year)

\* C7: for a season with no artifact at the start, the first call that
\* succeeds computes the table and writes it as the season's artifact, and
\* every later call for the season, calls for other seasons in between or
\* not, reads the artifact and returns the same table: the aggregation runs
\* at most once per season.
C7_ComputedOncePerSeason ==
    \A y \in Seasons :
        /\ computes[y] <= 1
        /\ ~cache0[y].exists =>
              /\ cache[y].exists =>
                    /\ computes[y] = 1
                    /\ cache[y].content = ComputeFpa(y)
              /\ (last.status = "returned" /\ last.year = y) =>
                    /\ last.table = ComputeFpa(y)
                    /\ last.after = Artifact(last.table)
                    /\ last.hit <=> ~last.computed
                    /\ last.hit <=> last.before.exists

\* A call hits the artifact its season's first call wrote, after a call for
\* the other season in between.
C7_Witness ==
    /\ calls = <<default_year, PrevYear, default_year>>
    /\ \A c \in Callers : pc[c] = "idle"
    /\ last.status = "returned"
    /\ last.year = default_year
    /\ last.hit
    /\ \A y \in Seasons : ~cache0[y].exists /\ computes[y] = 1

\* C9: a fetch of play-by-play, statistics or roster data (current or
\* previous season) that fails in a cache-miss call ends the call with the
\* failure, no table is returned and no artifact of the season is written,
\* so that a later call for the season runs the four fetches and the
\* aggregation again.
C9_FetchFailurePropagates ==
    /\ last.status = "raised" =>
          /\ ~last.before.exists
          /\ last.table = {}
          /\ ~last.computed
          /\ ~last.wrote
          /\ last.after = NoArtifact
    /\ \A y \in Seasons :
          (failed[y] /\ computes[y] = 0) => ~cache[y].exists
    /\ (last.status = "returned" /\ failed[last.year] /\ ~last.before.exists) =>
          /\ last.fetched = 4
          /\ last.computed
          /\ last.table = ComputeFpa(last.year)

\* A call that succeeds by computing a non-empty table after an earlier call
\* for the same season failed.
C9_Witness ==
    /\ last.status = "returned"
    /\ failed[last.year]
    /\ last.computed
    /\ last.fetched = 4
    /\ last.table # {}

-----------------------------------------------------------------------------
(* Calls of get_fpa_by_position served at the same time *)

\* No season has an artifact; the datasets are the same for every call.
InitConcurrent ==
    /\ \E w \in Worlds :
          /\ pbp = w.pbp
          /\ player_stats = w.stats
          /\ roster = w.roster
    /\ phase = "input"
    /\ players = {}
    /\ fpa_by_position = {}
    /\ cache = [y \in Seasons |-> NoArtifact]
    /\ NoCalls
    /\ view = NoView

\* Entry of get_fpa_by_position(year) while other requests may be under way:
\* nothing in the function waits for another call.
ConcurrentStart(c, year) ==
    /\ pc[c] = "idle"
    /\ Len(calls) < MaxCalls
    /\ calls' = Append(calls, year)
    /\ loc' = [loc EXCEPT ![c] = Locals(year)]
    /\ Goto(c, "exists")
    /\ UNCHANGED <<datasets, pure, view, cache, cache0, computes, failed, last>>

\* to_pickle opens cache_path for writing: the file exists, and is empty.
CallOpenPickle(c) ==
    /\ pc[c] = "to_pickle"
    /\ cache' = [cache EXCEPT ![loc[c].year] = TornArtifact]
    /\ Goto(c, "write_pickle")
    /\ UNCHANGED <<datasets, pure, view, cache0, loc, calls, computes, failed, last>>

\* to_pickle writes the pickle and closes the file.
CallWritePickle(c) ==
    /\ pc[c] = "write_pickle"
    /\ cache' = [cache EXCEPT ![loc[c].year] = Artifact(loc[c].fpa_by_position)]
    /\ loc' = [loc EXCEPT ![c].wrote = TRUE]
    /\ Goto(c, "return")
    /\ UNCHANGED <<datasets, pure, view, cache0, calls, computes, failed, last>>

\* pd.read_pickle(cache_path) of a file that is not yet written out: the
\* unpickler runs out of input and raises, nothing catches it.
CallReadTornPickle(c) ==
    /\ pc[c] = "read_pickle"
    /\ ~cache[loc[c].year].complete
    /\ last' = Outcome(loc[c], "raised", {}, cache[loc[c].year])
    /\ loc' = [loc EXCEPT ![c] = Locals(default_year)]
    /\ Goto(c, "idle")
    /\ UNCHANGED <<datasets, pure, view, cache, cache0, calls, computes, failed>>

ConcurrentStep(c) ==
    \/ CallExists(c)
    \/ CallReadPickle(c)
    \/ CallReadTornPickle(c)
    \/ CallGetPbpData(c)
    \/ CallGetPlayers(c)
    \/ CallGetPlayerStatsData(c)
    \/ CallGetRosterData(c)
    \/ CallGetRosterDataPrev(c)
    \/ CallAggregate(c)
    \/ CallOpenPickle(c)
    \/ CallWritePickle(c)
    \/ CallReturn(c)

NextConcurrent ==
    \/ \E c \in Callers, year \in Seasons : ConcurrentStart(c, year)
    \/ \E c \in Callers : ConcurrentStep(c)

SpecConcurrent == InitConcurrent /\ [][NextConcurrent]_vars

\* C11: with calls for the same uncached season under way at the same time,
\* under every interleaving of their steps, every call returns the table a
\* single call would return, and once all calls have finished the season's
\* artifact holds exactly that table.
C11_ConcurrentCallsAgree ==
    /\ last.status # "none" =>
          /\ last.status = "returned"
          /\ last.table = ComputeFpa(last.year)
    /\ (\A c \in Callers : pc[c] = "idle") =>
          \A i \in DOMAIN calls : cache[calls[i]] = Artifact(ComputeFpa(calls[i]))

-----------------------------------------------------------------------------
(* The consumers over the artifact of the default season *)

MaxTableRows == 3

\* Rows an aggregated table can hold: two weeks, a game seen from both
\* defenses, two positions.  The key of a row determines its points.
TableRows ==
    {[week               |-> w,
      defteam            |-> g[1],
      posteam            |-> g[2],
      position           |-> p,
      fantasy_points     |-> w + (IF p = "WR" THEN 4 ELSE 0),
      fantasy_points_ppr |-> w + (IF p = "WR" THEN 6 ELSE 1)]
     : w \in Weeks, g \in {<<"NE", "MIA">>, <<"MIA", "NE">>}, p \in {"WR", "RB"}}

Positions == {"WR", "RB", "TE"}
ScoringSystems == {"Standard", "Half-PPR", "PPR"}
GraphTypes == {"Raw", "Strength of schedule adjusted"}
FinalWeekBoxes == {<<>>, <<"Include Week">>}
Teams == {"NE", "MIA", "BUF"}

\* The artifact of the default season exists, so every consumer's call of
\* get_fpa_by_position reads it and changes nothing.  The calls are served
\* one at a time.
InitConsumers ==
    /\ \E table \in SUBSET TableRows :
          /\ Cardinality(table) <= MaxTableRows
          /\ cache = [y \in Seasons |->
                        IF y = default_year THEN Artifact(table) ELSE NoArtifact]
    /\ pbp = [y \in Seasons |-> <<>>]
    /\ player_stats = [y \in Seasons |-> <<>>]
    /\ roster = [y \in RosterSeasons |-> <<>>]
    /\ phase = "input"
    /\ players = {}
    /\ fpa_by_position = {}
    /\ NoCalls
    /\ view = NoView

\* fpa_by_position = get_fpa_by_position(year) when the artifact exists
ReadTable(year) == cache[year].content

ConsumerFrame == <<datasets, pure, machine>>

CallGetFinalWeek ==
    /\ view = NoView
    /\ cache[default_year].exists
    /\ view' = View("get_final_week", NULL, NULL, <<>>, NULL, NULL,
                    get_final_week(ReadTable(default_year)))
    /\ UNCHANGED ConsumerFrame

CallGetFpaData ==
    /\ view = NoView
    /\ cache[default_year].exists
    /\ \E pos \in Positions, include_final_week \in FinalWeekBoxes :
          view' = View("get_fpa_data", pos, NULL, include_final_week, NULL, NULL,
                       get_fpa_data(ReadTable(default_year), pos, include_final_week))
    /\ UNCHANGED ConsumerFrame

CallGetDefAvgBarchartData ==
    /\ view = NoView
    /\ cache[default_year].exists
    /\ \E pos \in Positions, scoring_system \in ScoringSystems,
          include_final_week \in FinalWeekBoxes, graph_type \in GraphTypes :
          view' = View("get_def_avg_barchart_data", pos, scoring_system,
                       include_final_week, graph_type, NULL,
                       get_def_avg_barchart_data(ReadTable(default_year), pos,
                           scoring_system, include_final_week, graph_type))
    /\ UNCHANGED ConsumerFrame

CallGetWeeklyLinechartData ==
    /\ view = NoView
    /\ cache[default_year].exists
    /\ \E pos \in Positions, scoring_system \in ScoringSystems,
          include_final_week \in FinalWeekBoxes, graph_type \in GraphTypes,
          team \in Teams :
          view' = View("get_weekly_linechart_data", pos, scoring_system,
                       include_final_week, graph_type, team,
                       get_weekly_linechart_data(ReadTable(default_year), pos,
                           scoring_system, include_final_week, graph_type, team))
    /\ UNCHANGED ConsumerFrame

CallUpdateBarchartSeason ==
    /\ view = NoView
    /\ cache[default_year].exists
    /\ \E pos \in Positions, scoring_system \in ScoringSystems,
          include_final_week \in FinalWeekBoxes, graph_type \in GraphTypes :
          view' = View("update_barchart_season", pos, scoring_system,
                       include_final_week, graph_type, NULL,
                       update_barchart_season(ReadTable(default_year), pos,
                           scoring_system, include_final_week, graph_type))
    /\ UNCHANGED ConsumerFrame

CallUpdateWeeklyComponents ==
    /\ view = NoView
    /\ cache[default_year].exists
    /\ \E pos \in Positions, scoring_system \in ScoringSystems,
          include_final_week \in FinalWeekBoxes, graph_type \in GraphTypes,
          team \in Teams \cup {NULL} :
          view' = View("update_weekly_components", pos, scoring_system,
                       include_final_week, graph_type, team,
                       update_weekly_components(ReadTable(default_year), pos,
                           scoring_system, include_final_week, graph_type, team))
    /\ UNCHANGED ConsumerFrame

CallUpdateCheckboxIncludeFinalWeek ==
    /\ view = NoView
    /\ cache[default_year].exists
    /\ view' = View("update_checkbox_include_final_week", NULL, NULL, <<>>, NULL, NULL,
                    update_checkbox_include_final_week(ReadTable(default_year)))
    /\ UNCHANGED ConsumerFrame

\* The result of the call goes out to the page, and the application waits
\* for the next call.
Respond ==
    /\ view # NoView
    /\ view' = NoView
    /\ UNCHANGED ConsumerFrame

NextConsumers ==
    \/ CallGetFinalWeek
    \/ CallGetFpaData
    \/ CallGetDefAvgBarchartData
    \/ CallGetWeeklyLinechartData
    \/ CallUpdateBarchartSeason
    \/ CallUpdateWeeklyComponents
    \/ CallUpdateCheckboxIncludeFinalWeek
    \/ Respond

SpecConsumers == InitConsumers /\ [][NextConsumers]_vars

-----------------------------------------------------------------------------
(* Consumers on a table without the rows asked for *)

\* The consumers that select the rows of a position, and those that select
\* the rows of a defense as well.
ByPosition == {"get_fpa_data", "get_def_avg_barchart_data",
               "get_weekly_linechart_data", "update_barchart_season",
               "update_weekly_components"}
ByTeam == {"get_weekly_linechart_data", "update_weekly_components"}

\* The most recent consumer call found the table empty, or without a row of
\* the position it selects, or without a row of the team it selects.
NothingSelected ==
    LET table == ReadTable(default_year)
    IN  /\ view.consumer # "none"
        /\ \/ table = {}
           \/ /\ view.consumer \in ByPosition
              /\ ~\E r \in table : r.position = view.pos
           \/ /\ view.consumer \in ByTeam
              /\ ~\E r \in table : r.defteam = view.team

\* C10: when the aggregated table is empty, or has no row for the selected
\* position or team, every downstream consumer completes without raising
\* and yields an empty result.
C10_EmptyHandled ==
    NothingSelected => (~view.result.raised /\ view.result.rows = {})

-----------------------------------------------------------------------------
(* The final-week filter of get_fpa_data (checked under SpecConsumers) *)

\* The columns of the season table in a row of fpa_data.
TableRow(r) ==
    [week               |-> r.week,
     defteam            |-> r.defteam,
     posteam            |-> r.posteam,
     position           |-> r.position,
     fantasy_points     |-> r.fantasy_points,
     fantasy_points_ppr |-> r.fantasy_points_ppr]

\* The rows of the table of a position, with or without those of the last
\* week of the whole table.
RowsOfPosition(table, pos, with_final_week) ==
    {r \in table :
        /\ r.position = pos
        /\ (with_final_week \/ \E x \in table : x.week > r.week)}

\* C15: get_fpa_data(year, pos, include_final_week) gives exactly the rows of
\* the season table with position = pos, without the rows of the largest
\* week of the whole table (all positions) when include_final_week is empty
\* and with them when it is not.
C15_FinalWeekFilter ==
    view.consumer = "get_fpa_data" =>
        /\ ~view.result.raised
        /\ {TableRow(r) : r \in view.result.rows} =
              RowsOfPosition(ReadTable(default_year), view.pos,
                             view.include_final_week # <<>>)

=============================================================================
